---- MODULE Spec2Model ----
(***************************************************************************)
(* Model of the OpenShift master assembly (package origin: MasterConfig)   *)
(* and of the API version registry (package latest).                       *)
(*                                                                         *)
(*   Spec        MasterConfig.Run on the starting thread, statement by     *)
(*               statement: policy bootstrap (one step per store call),    *)
(*               installation of the protected API with its user-route     *)
(*               count, handler wrapping, the open container, CORS, the    *)
(*               listener; the process may be started again against the    *)
(*               same policy store.                                        *)
(*   SpecServe   concurrent requests through the handler Run has built:    *)
(*               [CORS] -> open mux -> authentication -> authorization ->  *)
(*               protected container, or an endpoint of the open container.*)
(*   SpecFilter  the handler returned by authorizationFilter on its own,   *)
(*               with request URIs and response bodies as texts.           *)
(*   SpecIface   calls of latest.InterfacesFor.                            *)
(*   SpecEtcd    calls of NewEtcdHelper.                                   *)
(*   SpecPolicy  the authorization handler across changes of the policy.   *)
(*   SpecMapper  package latest's init: registration of the origin kinds   *)
(*               and lookups through the composite RESTMapper.             *)
(*   SpecListen  the listener goroutine of Run and RunAssetServer and the  *)
(*               dial probe of the starting thread (SpecListenFair adds    *)
(*               the scheduling of the starting thread).                   *)
(*   SpecControllers  the six controller launchers.                        *)
(*                                                                         *)
(* The variables of the specifications that are not running keep their     *)
(* idle values.  Texts are sequences of units (characters or words), so    *)
(* that quoting, joining and substring search are computed.                *)
(***************************************************************************)
EXTENDS Integers, Sequences, FiniteSets, TLC

\* ------------------------------------------------------------------ bounds
\* number of times the master process is started against the same store
MaxRuns == 2
\* number of externally supplied protected installers handed to Run
MaxExtProtected == 1
\* number of connections the listener accepts in one run
MaxAccepted == 1

\* --------------------------------------------------------------- constants
OpenShiftAPIPrefix == "/osapi"
OpenShiftAPIPrefixV1Beta1 == OpenShiftAPIPrefix \o "/v1beta1"
swaggerAPIPrefix == "/swaggerapi/"
\* route.Path the current-user filter is attached to (line 474)
UserRoutePath == OpenShiftAPIPrefixV1Beta1 \o "/users/{name}"
\* authorizationapi.PolicyName, the well-known name of the global policy
PolicyName == "global"
\* c.MasterAuthorizationNamespace, the name of the global policy binding
MasterAuthorizationNamespace == "master"

VARIABLES
    storePolicy,        \* the policy store holds the global Policy
    storeBinding,       \* the policy store holds the global PolicyBinding
    run,                \* which start of the process this is
    pc,                 \* position of the starting thread inside Run
    done,               \* stages of Run that have completed in this run
    bootLog,            \* store calls of ensureComponentAuthorizationRules, this run
    prevLog,            \* bootLog of the previous run
    storeAtStart,       \* store contents when this run started
    policyCreates,      \* successful CreatePolicy calls over all runs
    bindingCreates,     \* successful CreatePolicyBinding calls over all runs
    safe,               \* protected container: its registered web services
    userRoutesChanged,  \* InstallProtectedAPI's counter
    handler,            \* handler chain built by Run, outermost first
    open,               \* open container: its mux entries
    server,             \* http.Server.Handler, outermost first
    listening,          \* the listener task has been started
    accepted,           \* connections accepted by the listener
    exitReason,         \* why the process exited ("" while it has not)
    CORSAllowedOrigins, \* c.CORSAllowedOrigins: the configured origin patterns
    compiledPatterns,   \* origin patterns handed to the regexp compiler, this run
    cRequestsToUsers,   \* the field c.requestsToUsers: NilMap, or the map it points to
    mapsCreated,        \* authcontext.NewRequestContextMap calls of this process
    mapHolders,         \* the components built so far and the map each was handed
    reqPath,            \* per request: the URL path it asks for
    reqStack,           \* per request: the handler stages it has still to enter
    reqTrace,           \* per request: the handler stages it has entered
    reqStatus,          \* per request: the status written (0 while none)
    requestsToUsers,    \* c.requestsToUsers: the requests the map holds an entry for
    ctxWrites,          \* per request: the entries written to the map for it
    fCount,             \* authorizationFilter alone: requests handled
    fReq,               \* authorizationFilter alone: the last request's inputs
    fResp,              \* authorizationFilter alone: what the last request caused
    fGrant,             \* authorizationFilter alone: the policy store grants the request
    fPrev,              \* authorizationFilter alone: the request before the last
    ifaceLog,           \* InterfacesFor: the calls made and their results
    knownTypes,         \* api.Scheme.KnownTypes: per version, the kinds of the schema
    kubeMapper,         \* klatest.RESTMapper: the mappings the host platform holds
    originMapper,       \* init's originMapper: the mappings registered so far
    todo,               \* init's loops: the (version, kind) pairs still to visit
    addCalls,           \* per (version, kind): the originMapper.Add calls made
    RESTMapper,         \* latest.RESTMapper: the mappers it consults, in order
    lookupLog,          \* RESTMapper.RESTMapping: the calls made and their results
    lEntry,             \* listener start: the function running, and c.TLS
    lPc,                \* listener start: position of the starting thread
    lTask,              \* listener start: state of the task util.Forever runs
    lInvocations,       \* listener start: times util.Forever has invoked the function
    lServeErrors,       \* listener start: times ListenAndServe has returned
    lAttempts,          \* listener start: dial attempts of the readiness probe
    lDialed,            \* listener start: the readiness probe has connected
    lExit,              \* listener start: why the process exited ("" while it has not)
    cLaunches,          \* per controller launcher: the times it has been invoked
    cControllers,       \* per controller launcher: the controllers it has constructed
    etcdLog             \* NewEtcdHelper: the calls made and their results

bootVars == <<storePolicy, storeBinding, run, pc, done, bootLog, prevLog,
              storeAtStart, policyCreates, bindingCreates, safe,
              userRoutesChanged, handler, open, server, listening, accepted,
              exitReason, CORSAllowedOrigins, compiledPatterns,
              cRequestsToUsers, mapsCreated, mapHolders>>

mapVars == <<cRequestsToUsers, mapsCreated, mapHolders>>

ctxVars == <<requestsToUsers, ctxWrites>>
serveVars == <<reqPath, reqStack, reqTrace, reqStatus, ctxVars>>
filterVars == <<fCount, fReq, fResp, fGrant, fPrev>>
ifaceVars == <<ifaceLog>>
mapperVars == <<knownTypes, kubeMapper, originMapper, todo, addCalls, RESTMapper,
                lookupLog>>

listenVars == <<lEntry, lPc, lTask, lInvocations, lServeErrors, lAttempts, lDialed,
                lExit>>
ctrlVars == <<cLaunches, cControllers>>

\* the variables of package latest's init, of the listener start and of the
\* controller launchers
etcdVars == <<etcdLog>>
auxVars == <<mapperVars, listenVars, ctrlVars, etcdVars>>

vars == <<bootVars, serveVars, filterVars, ifaceVars, auxVars>>

\* ------------------------------------------------------------ sequences
\* strings.Contains on a text held as a sequence of units
Contains(s, sub) ==
    \E i \in 0..(Len(s) - Len(sub)) :
        \A j \in 1..Len(sub) : s[i + j] = sub[j]

SeqsUpTo(S, n) == UNION {[1..k -> S] : k \in 0..n}

RECURSIVE Flatten(_)
Flatten(ss) == IF ss = <<>> THEN <<>> ELSE Head(ss) \o Flatten(Tail(ss))

\* ---------------------------------------------------------- policy store
\* a nil error
Nil == <<>>
\* error texts, as sequences of words
ErrKeyNotFound == <<"key", "not", "found">>
ErrUnavailable == <<"etcd", "cluster", "unavailable">>
NotFoundText == <<"not", "found">>

NilObject == [nil |-> TRUE, Name |-> ""]
Object(n) == [nil |-> FALSE, Name |-> n]

\* what a Get of an object named n can return, given whether the store holds it
GetOutcomes(present, n) ==
    IF present
    THEN {[existing |-> Object(n), err |-> Nil],
          [existing |-> NilObject, err |-> ErrUnavailable]}
    ELSE {[existing |-> NilObject, err |-> ErrKeyNotFound],
          [existing |-> NilObject, err |-> ErrUnavailable]}

\* what a Create can return: it succeeds only when the object is absent
CreateOutcomes(present) ==
    IF present THEN {ErrUnavailable} ELSE {Nil, ErrUnavailable}

\* ------------------------------------------------------------- Run order
\* the statements of MasterConfig.Run in program order
RunOrderListenFirst ==
    <<"Listen", "ensureComponentAuthorizationRules", "InstallProtected", "Wrap",
      "InstallUnprotected", "Swagger", "CORS", "Probe">>

RunOrder ==
    <<"ensureComponentAuthorizationRules", "InstallProtected", "Wrap",
      "InstallUnprotected", "Swagger", "CORS", "Listen", "Probe">>

StageIndex(s) == CHOOSE i \in 1..Len(RunOrder) : RunOrder[i] = s

\* where a stage starts: the bootstrap stage starts with its first store call
Enter(s) == IF s = "ensureComponentAuthorizationRules" THEN "GetPolicy" ELSE s

\* the position after stage s has completed
After(s) ==
    IF StageIndex(s) = Len(RunOrder) THEN "returned"
    ELSE Enter(RunOrder[StageIndex(s) + 1])

BootstrapPcs == {"GetPolicy", "CreatePolicy", "GetPolicyBinding", "CreatePolicyBinding"}

\* ------------------------------------------- ensureComponentAuthorizationRules
\* lines 606-618: what follows GetPolicy's result r
AfterGetPolicyNoSkip(r) ==
    IF r.err = Nil \/ Contains(r.err, NotFoundText)
    THEN "CreatePolicy"
    ELSE "GetPolicyBinding"

AfterGetPolicyFatal(r) ==
    IF r.err = Nil \/ Contains(r.err, NotFoundText)
    THEN IF ~r.existing.nil /\ r.existing.Name = PolicyName
         THEN "return"
         ELSE "CreatePolicy"
    ELSE "exit"

AfterGetPolicy(r) ==
    IF r.err = Nil \/ Contains(r.err, NotFoundText)
    THEN IF ~r.existing.nil /\ r.existing.Name = PolicyName
         THEN "return"
         ELSE "CreatePolicy"
    ELSE "GetPolicyBinding"

\* lines 620-632: what follows GetPolicyBinding's result r
AfterGetPolicyBinding(r) ==
    IF r.err = Nil \/ Contains(r.err, NotFoundText)
    THEN IF ~r.existing.nil /\ r.existing.Name = MasterAuthorizationNamespace
         THEN "return"
         ELSE "CreatePolicyBinding"
    ELSE "return"

\* move the starting thread to target t of the bootstrap function
BootGoto(t) ==
    /\ pc' = CASE t = "return" -> After("ensureComponentAuthorizationRules")
               [] t = "exit" -> "exited"
               [] OTHER -> t
    /\ done' = IF t = "return"
               THEN done \cup {"ensureComponentAuthorizationRules"}
               ELSE done
    /\ exitReason' = IF t = "exit" THEN "bootstrap" ELSE exitReason

Call(op, err) == [op |-> op, err |-> err]

runTail == <<run, prevLog, storeAtStart, safe, userRoutesChanged, handler,
             open, server, listening, accepted, CORSAllowedOrigins,
             compiledPatterns, mapVars, serveVars, filterVars, ifaceVars,
             auxVars>>

GetPolicy ==
    /\ pc = "GetPolicy"
    /\ \E r \in GetOutcomes(storePolicy, PolicyName) :
        /\ bootLog' = Append(bootLog, Call("GetPolicy", r.err))
        /\ BootGoto(AfterGetPolicy(r))
    /\ UNCHANGED <<storePolicy, storeBinding, policyCreates, bindingCreates>>
    /\ UNCHANGED runTail

CreatePolicy ==
    /\ pc = "CreatePolicy"
    /\ \E err \in CreateOutcomes(storePolicy) :
        /\ bootLog' = Append(bootLog, Call("CreatePolicy", err))
        /\ storePolicy' = (storePolicy \/ err = Nil)
        /\ policyCreates' = policyCreates + (IF err = Nil THEN 1 ELSE 0)
    /\ BootGoto("GetPolicyBinding")
    /\ UNCHANGED <<storeBinding, bindingCreates>>
    /\ UNCHANGED runTail

GetPolicyBinding ==
    /\ pc = "GetPolicyBinding"
    /\ \E r \in GetOutcomes(storeBinding, MasterAuthorizationNamespace) :
        /\ bootLog' = Append(bootLog, Call("GetPolicyBinding", r.err))
        /\ BootGoto(AfterGetPolicyBinding(r))
    /\ UNCHANGED <<storePolicy, storeBinding, policyCreates, bindingCreates>>
    /\ UNCHANGED runTail

CreatePolicyBinding ==
    /\ pc = "CreatePolicyBinding"
    /\ \E err \in CreateOutcomes(storeBinding) :
        /\ bootLog' = Append(bootLog, Call("CreatePolicyBinding", err))
        /\ storeBinding' = (storeBinding \/ err = Nil)
        /\ bindingCreates' = bindingCreates + (IF err = Nil THEN 1 ELSE 0)
    /\ BootGoto("return")
    /\ UNCHANGED <<storePolicy, policyCreates>>
    /\ UNCHANGED runTail

\* ------------------------------------------------------ protected container
Route(m, p) == [Method |-> m, Path |-> p, Filters |-> <<>>]
WebService(root, routes) == [root |-> root, routes |-> routes]

\* routes InstallREST registers for the "users" storage (line 440)
UserRoutes ==
    <<Route("GET", OpenShiftAPIPrefixV1Beta1 \o "/users"),
      Route("GET", UserRoutePath),
      Route("PUT", UserRoutePath)>>

\* the same without the GET of a single user
UserRoutesNoGet ==
    <<Route("GET", OpenShiftAPIPrefixV1Beta1 \o "/users"),
      Route("PUT", UserRoutePath)>>

\* results of NewAPIGroupVersion(...).InstallREST (line 455): an error, or one
\* web service rooted at the versioned prefix added to the container
InstallRESTOutcomes ==
    {[err |-> TRUE, ws |-> WebService(OpenShiftAPIPrefixV1Beta1, <<>>)],
     [err |-> FALSE, ws |-> WebService(OpenShiftAPIPrefixV1Beta1, UserRoutes)],
     [err |-> FALSE, ws |-> WebService(OpenShiftAPIPrefixV1Beta1, UserRoutesNoGet)]}

\* what one externally supplied protected installer registers on the container
ExtProtectedInstallers ==
    {<<>>,
     <<WebService(OpenShiftAPIPrefixV1Beta1, <<Route("GET", UserRoutePath)>>)>>,
     <<WebService("/", <<Route("GET", UserRoutePath)>>)>>}

\* line 474
IsUserRoute(route) == route.Method = "GET" /\ route.Path = UserRoutePath

\* lines 472-478 for one web service: the filter appended to each matching route
AddCurrentUserFilter(svc) ==
    [svc EXCEPT !.routes =
        [i \in DOMAIN svc.routes |->
            IF IsUserRoute(svc.routes[i])
            THEN [svc.routes[i] EXCEPT
                    !.Filters = Append(@, "currentUserContextFilter")]
            ELSE svc.routes[i]]]

RECURSIVE CountRoutes(_)
CountRoutes(routes) ==
    IF routes = <<>> THEN 0
    ELSE (IF IsUserRoute(Head(routes)) THEN 1 ELSE 0) + CountRoutes(Tail(routes))

\* lines 461-480: userRoutesChanged after the loop over the registered services
RECURSIVE CountUserRoutes(_)
CountUserRoutes(svcs) ==
    IF svcs = <<>> THEN 0
    ELSE (IF Head(svcs).root = OpenShiftAPIPrefixV1Beta1
          THEN CountRoutes(Head(svcs).routes) ELSE 0)
         + CountUserRoutes(Tail(svcs))

\* line 481: the condition under which InstallProtectedAPI calls glog.Fatalf
UserRoutesFatalOnlyWhenNone(n) == n = 0

UserRoutesFatal(n) == n # 1

\* lines 484-488: the root web service gets the version route
VersionRoute == Route("GET", OpenShiftAPIPrefix)

WithVersionRoute(svcs) ==
    IF \E i \in DOMAIN svcs : svcs[i].root = "/"
    THEN LET last == CHOOSE i \in DOMAIN svcs :
                        /\ svcs[i].root = "/"
                        /\ \A j \in DOMAIN svcs : svcs[j].root = "/" => j <= i
         IN [svcs EXCEPT ![last].routes = Append(@, VersionRoute)]
    ELSE Append(svcs, WebService("", <<VersionRoute>>))

\* InstallProtectedAPI on a container, given InstallREST's result
InstallProtectedAPI(container, rest) ==
    IF rest.err
    THEN [container |-> container, userRoutesChanged |-> 0, fatal |-> "InstallREST"]
    ELSE LET c1 == Append(container, rest.ws)
             n == CountUserRoutes(c1)
             c2 == [i \in DOMAIN c1 |->
                      IF c1[i].root = OpenShiftAPIPrefixV1Beta1
                      THEN AddCurrentUserFilter(c1[i]) ELSE c1[i]]
         IN IF UserRoutesFatal(n)
            THEN [container |-> c2, userRoutesChanged |-> n, fatal |-> "userRoute"]
            ELSE [container |-> WithVersionRoute(c2), userRoutesChanged |-> n,
                  fatal |-> ""]

wrapTail == <<storePolicy, storeBinding, run, bootLog, prevLog, storeAtStart,
              policyCreates, bindingCreates, CORSAllowedOrigins, compiledPatterns,
              serveVars, filterVars, ifaceVars, auxVars>>

corsTail == <<storePolicy, storeBinding, run, bootLog, prevLog, storeAtStart,
              policyCreates, bindingCreates, CORSAllowedOrigins, mapVars,
              serveVars, filterVars, ifaceVars, auxVars>>

bootTail == <<corsTail, compiledPatterns>>

\* ------------------------------------------------------ shared context map
\* the nil pointer, the value of c.requestsToUsers after construction
NilMap == 0

\* the field c.requestsToUsers together with what has been built around it
ConfigMaps(field, created, holders) ==
    [field |-> field, created |-> created, holders |-> holders]

\* authcontext.NewRequestContextMap (line 596): a map no earlier call returned
NewRequestContextMap(created) == created + 1

getRequestsToUsersAlwaysNew(c) ==
    LET m == NewRequestContextMap(c.created)
    IN [field |-> m, created |-> c.created + 1, ret |-> m]

\* lines 594-599: the field is set on the first call and returned by each
getRequestsToUsers(c) ==
    IF c.field = NilMap
    THEN LET m == NewRequestContextMap(c.created)
         IN [field |-> m, created |-> c.created + 1, ret |-> m]
    ELSE [field |-> c.field, created |-> c.created, ret |-> c.field]

\* a component is built around c.getRequestsToUsers() (lines 470, 539, 638)
BuiltWith(c, component) ==
    LET r == getRequestsToUsers(c)
    IN ConfigMaps(r.field, r.created,
                  Append(c.holders, [component |-> component, map |-> r.ret]))

\* lines 461-480: one currentUserContextFilter per web service rooted at the
\* versioned prefix
RECURSIVE InstallCurrentUserFilters(_, _)
InstallCurrentUserFilters(svcs, c) ==
    IF svcs = <<>> THEN c
    ELSE InstallCurrentUserFilters(Tail(svcs),
            IF Head(svcs).root = OpenShiftAPIPrefixV1Beta1
            THEN BuiltWith(c, "currentUserContextFilter")
            ELSE c)

\* lines 538-539: authorizationFilter builds the attribute builder (line 638),
\* then the authentication filter is built
WrapBuilds(c) ==
    BuiltWith(BuiltWith(c, "authorizationAttributeBuilder"),
              "authenticationHandlerFilter")

ThisConfig == ConfigMaps(cRequestsToUsers, mapsCreated, mapHolders)

ConfigIs(c) ==
    /\ cRequestsToUsers = c.field
    /\ mapsCreated = c.created
    /\ mapHolders = c.holders

SetConfig(c) ==
    /\ cRequestsToUsers' = c.field
    /\ mapsCreated' = c.created
    /\ mapHolders' = c.holders

\* lines 530-537: the external protected installers, then InstallProtectedAPI
InstallProtected ==
    /\ pc = "InstallProtected"
    /\ \E protected \in SeqsUpTo(ExtProtectedInstallers, MaxExtProtected),
          rest \in InstallRESTOutcomes :
        LET r == InstallProtectedAPI(Flatten(protected), rest)
        IN /\ safe' = r.container
           /\ userRoutesChanged' = r.userRoutesChanged
           /\ exitReason' = r.fatal
           /\ pc' = IF r.fatal = "" THEN After("InstallProtected") ELSE "exited"
           /\ done' = IF r.fatal = "" THEN done \cup {"InstallProtected"} ELSE done
           /\ SetConfig(IF rest.err THEN ThisConfig
                        ELSE InstallCurrentUserFilters(
                                Append(Flatten(protected), rest.ws), ThisConfig))
    /\ UNCHANGED <<handler, open, server, listening, accepted>>
    /\ UNCHANGED wrapTail

\* ------------------------------------------------------------ handler chain
\* a handler is the sequence of stages a request passes, outermost first
authorizationFilterAround(h) == <<"authorizationFilter">> \o h
authenticationHandlerFilterAround(h) == <<"authenticationHandlerFilter">> \o h

\* lines 538-539
ProtectedHandlerAuthorizationOutside(h) ==
    authorizationFilterAround(authenticationHandlerFilterAround(h))

ProtectedHandlerNoAuthentication(h) == authorizationFilterAround(h)

ProtectedHandler(h) ==
    authenticationHandlerFilterAround(authorizationFilterAround(h))

Wrap ==
    /\ pc = "Wrap"
    /\ handler' = ProtectedHandler(<<"safe">>)
    /\ SetConfig(WrapBuilds(ThisConfig))
    /\ pc' = After("Wrap")
    /\ done' = done \cup {"Wrap"}
    /\ UNCHANGED <<safe, userRoutesChanged, open, server, listening, accepted,
                   exitReason>>
    /\ UNCHANGED wrapTail

\* ----------------------------------------------------------- open container
\* a mux entry: the pattern as its path segments, whether it ends in "/" (and
\* so covers the subtree below it), and the handler registered for it
Entry(pattern, subtree, target) ==
    [pattern |-> pattern, subtree |-> subtree, target |-> target]

\* OpenShiftAPIPrefixV1Beta1 + "/buildConfigHooks/" as path segments (line 506)
BuildConfigHooksPrefix == <<"osapi", "v1beta1", "buildConfigHooks">>
\* swaggerAPIPrefix as path segments
SwaggerPrefix == <<"swaggerapi">>

\* what one externally supplied unprotected installer registers
ExtUnprotectedInstallers == {{}, {Entry(<<"healthz">>, FALSE, <<"healthz">>)}}

\* lines 495-510
InstallUnprotectedAPI == {Entry(BuildConfigHooksPrefix, TRUE, <<"webhook">>)}

\* the entry Run mounts at the root of the open container (line 546)
RootEntryUnprotected(h) == Entry(<<>>, TRUE, <<"safe">>)

RootEntry(h) == Entry(<<>>, TRUE, h)

\* lines 541-546: the open container after the unprotected installers (ext is
\* what the external ones register) and the mount of handler h at its root
OpenInstalled(ext, h) == ext \cup InstallUnprotectedAPI \cup {RootEntry(h)}

\* lines 548-554: the swagger service registered on the open container
WithSwagger(o) == o \cup {Entry(SwaggerPrefix, TRUE, <<"swagger">>)}

\* lines 541-546
InstallUnprotected ==
    /\ pc = "InstallUnprotected"
    /\ \E ext \in ExtUnprotectedInstallers :
        open' = OpenInstalled(ext, handler)
    /\ pc' = After("InstallUnprotected")
    /\ done' = done \cup {"InstallUnprotected"}
    /\ UNCHANGED <<safe, userRoutesChanged, handler, server, listening, accepted,
                   exitReason>>
    /\ UNCHANGED bootTail

\* lines 548-554
Swagger ==
    /\ pc = "Swagger"
    /\ open' = WithSwagger(open)
    /\ pc' = After("Swagger")
    /\ done' = done \cup {"Swagger"}
    /\ UNCHANGED <<safe, userRoutesChanged, handler, server, listening, accepted,
                   exitReason>>
    /\ UNCHANGED bootTail

\* ---------------------------------------------------------------------- CORS
\* values of c.CORSAllowedOrigins: none, a pattern that compiles, one that does
\* not, one that does not after one that does
CORSConfigs == {<<>>, <<"localhost">>, <<"(">>, <<"localhost", "(">>}

Compiles(pattern) == pattern # "("

\* lines 556-561: the handler the server is given
ServerHandlerAlwaysCORS(origins) == <<"CORS", "open">>

ServerHandler(origins) ==
    IF Len(origins) # 0 THEN <<"CORS", "open">> ELSE <<"open">>

\* util.CompileRegexps: the patterns are compiled in order up to the first one
\* that fails (0 when none fails)
FirstFailing(patterns) ==
    LET bad == {i \in DOMAIN patterns : ~Compiles(patterns[i])}
    IN IF bad = {} THEN 0 ELSE CHOOSE i \in bad : \A j \in bad : i <= j

\* lines 861-870: the regexps returned, the patterns handed to the compiler,
\* and whether glog.Fatalf was reached
ensureCORSAllowedOrigins(configured) ==
    IF Len(configured) = 0
    THEN [regexps |-> <<>>, compiled |-> 0, fatal |-> FALSE]
    ELSE IF FirstFailing(configured) # 0
    THEN [regexps |-> <<>>, compiled |-> FirstFailing(configured), fatal |-> TRUE]
    ELSE [regexps |-> configured, compiled |-> Len(configured), fatal |-> FALSE]

\* lines 556-561 with ensureCORSAllowedOrigins (lines 861-870)
CORS ==
    /\ pc = "CORS"
    /\ LET origins == ensureCORSAllowedOrigins(CORSAllowedOrigins)
       IN /\ compiledPatterns' = origins.compiled
          /\ IF ~origins.fatal
             THEN /\ server' = ServerHandler(origins.regexps)
                  /\ pc' = After("CORS")
                  /\ done' = done \cup {"CORS"}
                  /\ UNCHANGED exitReason
             ELSE /\ pc' = "exited"
                  /\ exitReason' = "cors"
                  /\ UNCHANGED <<server, done>>
    /\ UNCHANGED <<safe, userRoutesChanged, handler, open, listening, accepted>>
    /\ UNCHANGED corsTail

\* ------------------------------------------------------------------ listener
\* lines 571-587: the listener task is started
Listen ==
    /\ pc = "Listen"
    /\ listening' = TRUE
    /\ pc' = After("Listen")
    /\ done' = done \cup {"Listen"}
    /\ UNCHANGED <<safe, userRoutesChanged, handler, open, server, accepted,
                   exitReason>>
    /\ UNCHANGED bootTail

\* lines 589-590: the readiness probe ends and Run returns
Probe ==
    /\ pc = "Probe"
    /\ pc' = After("Probe")
    /\ done' = done \cup {"Probe"}
    /\ UNCHANGED <<safe, userRoutesChanged, handler, open, server, listening,
                   accepted, exitReason>>
    /\ UNCHANGED bootTail

\* the listener task accepts a connection
Accept ==
    /\ listening
    /\ pc # "exited"
    /\ accepted < MaxAccepted
    /\ accepted' = accepted + 1
    /\ UNCHANGED <<pc, done, safe, userRoutesChanged, handler, open, server,
                   listening, exitReason>>
    /\ UNCHANGED bootTail

\* ------------------------------------------------------------- process start
Store == [policy |-> storePolicy, binding |-> storeBinding]

\* the process is started again against the same store
Restart ==
    /\ pc \in {"returned", "exited"}
    /\ run < MaxRuns
    /\ run' = run + 1
    /\ pc' = Enter(RunOrder[1])
    /\ done' = {}
    /\ prevLog' = bootLog
    /\ bootLog' = <<>>
    /\ storeAtStart' = Store
    /\ safe' = <<>>
    /\ userRoutesChanged' = 0
    /\ handler' = <<>>
    /\ open' = {}
    /\ server' = <<>>
    /\ listening' = FALSE
    /\ accepted' = 0
    /\ exitReason' = ""
    /\ compiledPatterns' = 0
    /\ SetConfig(ConfigMaps(NilMap, 0, <<>>))
    /\ UNCHANGED <<storePolicy, storeBinding, policyCreates, bindingCreates,
                   CORSAllowedOrigins>>
    /\ UNCHANGED <<serveVars, filterVars, ifaceVars, auxVars>>

\* no request is in flight
ServeIdle ==
    /\ reqPath = <<>>
    /\ reqStack = <<>>
    /\ reqTrace = <<>>
    /\ reqStatus = <<>>
    /\ requestsToUsers = {}
    /\ ctxWrites = <<>>

FilterIdle ==
    /\ fCount = 0
    /\ fReq = <<>>
    /\ fResp = <<>>
    /\ fGrant = FALSE
    /\ fPrev = <<>>

IfaceIdle == ifaceLog = <<>>

MapperIdle ==
    /\ knownTypes = <<>>
    /\ kubeMapper = {}
    /\ originMapper = {}
    /\ todo = {}
    /\ addCalls = <<>>
    /\ RESTMapper = <<>>
    /\ lookupLog = <<>>

\* no listener is being started
ListenIdle ==
    /\ lEntry = [func |-> "", TLS |-> FALSE]
    /\ lPc = "returned"
    /\ lTask = "none"
    /\ lInvocations = 0
    /\ lServeErrors = 0
    /\ lAttempts = 0
    /\ lDialed = FALSE
    /\ lExit = ""

\* no controller launcher has been invoked
CtrlIdle ==
    /\ cLaunches = <<>>
    /\ cControllers = <<>>

\* NewEtcdHelper has not been called
EtcdIdle == etcdLog = <<>>

AuxIdle == MapperIdle /\ ListenIdle /\ CtrlIdle /\ EtcdIdle

Init ==
    /\ ServeIdle
    /\ FilterIdle
    /\ IfaceIdle
    /\ AuxIdle
    /\ storePolicy \in BOOLEAN
    /\ storeBinding \in BOOLEAN
    /\ run = 1
    /\ pc = Enter(RunOrder[1])
    /\ done = {}
    /\ bootLog = <<>>
    /\ prevLog = <<>>
    /\ storeAtStart = Store
    /\ policyCreates = 0
    /\ bindingCreates = 0
    /\ safe = <<>>
    /\ userRoutesChanged = 0
    /\ handler = <<>>
    /\ open = {}
    /\ server = <<>>
    /\ listening = FALSE
    /\ accepted = 0
    /\ exitReason = ""
    /\ CORSAllowedOrigins \in CORSConfigs
    /\ compiledPatterns = 0
    /\ ConfigIs(ConfigMaps(NilMap, 0, <<>>))

Next ==
    \/ GetPolicy
    \/ CreatePolicy
    \/ GetPolicyBinding
    \/ CreatePolicyBinding
    \/ InstallProtected
    \/ Wrap
    \/ InstallUnprotected
    \/ Swagger
    \/ CORS
    \/ Listen
    \/ Probe
    \/ Accept
    \/ Restart

Spec == Init /\ [][Next]_vars

\* =================================================== properties of Spec
BootstrapStage == "ensureComponentAuthorizationRules"

IsGet(c) == c.op \in {"GetPolicy", "GetPolicyBinding"}
IsCreate(c) == c.op \in {"CreatePolicy", "CreatePolicyBinding"}

\* the store answered: a Get found the object or reported it not found, a
\* Create created it
Succeeded(c) ==
    \/ c.err = Nil
    \/ IsGet(c) /\ c.err = ErrKeyNotFound

AllSucceeded(log) == \A i \in DOMAIN log : Succeeded(log[i])
CreatesSucceeded(log) == \A i \in DOMAIN log : IsCreate(log[i]) => log[i].err = Nil
ReadsSucceeded(log) == \A i \in DOMAIN log : IsGet(log[i]) => Succeeded(log[i])
NoCreateCall(log) == \A i \in DOMAIN log : ~IsCreate(log[i])

\* C5: when bootstrap has returned and every store call it made succeeded, the
\* global Policy and the global PolicyBinding both exist, whatever the store
\* held at the start (the Policy and the PolicyBinding are each handled on
\* their own).
C5_BothExistAfterBootstrap ==
    (BootstrapStage \in done /\ AllSucceeded(bootLog))
        => (storePolicy /\ storeBinding)

C7_BootstrapNeverFatal ==
    /\ exitReason # "bootstrap"
    /\ pc = "exited" => BootstrapStage \in done
    /\ (done = {BootstrapStage} /\ pc # "exited") => pc = "InstallProtected"

C7_Witness ==
    /\ listening
    /\ \E i \in DOMAIN bootLog : bootLog[i] = Call("CreatePolicy", ErrUnavailable)
    /\ \E i \in DOMAIN bootLog : bootLog[i] = Call("GetPolicyBinding", ErrUnavailable)

\* C8: the listener task is started, and a connection accepted, only after
\* bootstrap has returned with all its store calls finished.
C8_BootstrapBeforeListener ==
    (listening \/ accepted > 0)
        => (BootstrapStage \in done /\ pc \notin BootstrapPcs)

C8_Witness ==
    /\ accepted > 0
    /\ \E i \in DOMAIN bootLog : bootLog[i] = Call("CreatePolicyBinding", Nil)

\* the GET routes for the current user on services rooted at the versioned root
MatchingUserRoutes(c) ==
    UNION {{<<i, j>> : j \in {k \in DOMAIN c[i].routes :
                                /\ c[i].routes[k].Method = "GET"
                                /\ c[i].routes[k].Path = UserRoutePath}} :
           i \in {k \in DOMAIN c : c[k].root = OpenShiftAPIPrefixV1Beta1}}

HasCurrentUserFilter(route) ==
    \E k \in DOMAIN route.Filters : route.Filters[k] = "currentUserContextFilter"

\* InstallProtectedAPI has reached its route count in this run
RoutesCounted == "InstallProtected" \in done \/ exitReason = "userRoute"

\* C9: once InstallProtectedAPI has counted the current-user GET routes of the
\* services rooted at the versioned API root (those of external installers
\* included): a count other than 1 has ended the process with the listener not
\* started; a count of 1 has attached the filter to that route and to no other,
\* and installation has completed.
C9_UserRouteCount ==
    RoutesCounted =>
        LET m == MatchingUserRoutes(safe)
        IN /\ Cardinality(m) # 1 =>
                (pc = "exited" /\ exitReason = "userRoute" /\ ~listening)
           /\ Cardinality(m) = 1 =>
                /\ "InstallProtected" \in done
                /\ exitReason # "userRoute"
                /\ \A i \in DOMAIN safe : \A j \in DOMAIN safe[i].routes :
                        HasCurrentUserFilter(safe[i].routes[j]) <=> <<i, j>> \in m

\* the single current-user route came from an external installer
C9_Witness ==
    /\ listening
    /\ Len(safe) >= 2
    /\ safe[1].root = OpenShiftAPIPrefixV1Beta1
    /\ HasCurrentUserFilter(safe[1].routes[1])
    /\ Cardinality(MatchingUserRoutes(safe)) = 1

\* the CORS statements of Run have been executed in this run
CORSReached == "CORS" \in done \/ exitReason = "cors"

AllCompile(patterns) == \A i \in DOMAIN patterns : patterns[i] # "("

\* C17: once Run has executed its CORS statements: the server's handler is
\* the open container wrapped in CORS exactly when the configured list is not
\* empty; with an empty list no pattern has been compiled and the handler is
\* the open container itself; when some configured pattern does not compile
\* the process has exited and the listener is never started; otherwise Run
\* has gone on.
C17_CORSIffOriginsConfigured ==
    /\ CORSReached =>
          /\ ~AllCompile(CORSAllowedOrigins) =>
                (pc = "exited" /\ exitReason = "cors" /\ ~listening /\ accepted = 0)
          /\ AllCompile(CORSAllowedOrigins) =>
                /\ "CORS" \in done
                /\ exitReason = ""
                /\ server = <<"CORS", "open">> <=> Len(CORSAllowedOrigins) # 0
                /\ server = <<"open">> <=> Len(CORSAllowedOrigins) = 0
                /\ compiledPatterns = Len(CORSAllowedOrigins)
          /\ Len(CORSAllowedOrigins) = 0 => compiledPatterns = 0
    /\ listening => AllCompile(CORSAllowedOrigins)
    /\ ~CORSReached => compiledPatterns = 0

\* the listener runs with an empty list and so without CORS
C17_Witness ==
    /\ listening
    /\ CORSAllowedOrigins = <<>>
    /\ server = <<"open">>
    /\ compiledPatterns = 0

\* the components Run builds around c.getRequestsToUsers()
MapComponents ==
    {"currentUserContextFilter", "authorizationAttributeBuilder",
     "authenticationHandlerFilter"}

HoldersOf(component) ==
    {i \in DOMAIN mapHolders : mapHolders[i].component = component}

\* C21: getRequestsToUsers creates the map on its first call and returns that
\* instance on every later call of the same MasterConfig: the process creates
\* one map at most, every component built so far was handed the map the field
\* points to, once Run has wrapped the handler the current-user filter, the
\* attribute builder and the authentication filter all exist and hold it, and
\* within a process the field, once set, keeps its value.
C21_OneSharedMap ==
    /\ [](/\ mapsCreated = (IF mapHolders = <<>> THEN 0 ELSE 1)
          /\ (cRequestsToUsers = NilMap) = (mapHolders = <<>>)
          /\ \A i \in DOMAIN mapHolders :
                /\ mapHolders[i].map # NilMap
                /\ mapHolders[i].map = cRequestsToUsers
          /\ "Wrap" \in done =>
                \A component \in MapComponents : HoldersOf(component) # {})
    /\ [][(run' = run /\ cRequestsToUsers # NilMap)
            => cRequestsToUsers' = cRequestsToUsers]_vars

\* Run has returned with two current-user filters, the attribute builder and
\* the authentication filter built, after four calls of getRequestsToUsers
C21_Witness ==
    /\ pc = "returned"
    /\ Cardinality(HoldersOf("currentUserContextFilter")) = 2
    /\ HoldersOf("authorizationAttributeBuilder") # {}
    /\ HoldersOf("authenticationHandlerFilter") # {}
    /\ Len(mapHolders) = 4
    /\ cRequestsToUsers # NilMap

\* ======================================================= authorizationFilter
\* authorizer.ErrNoStandardParts and another error GetAttributes can return
ErrNoStandardParts == <<"the", "provided", "URL", "does", "not", "match">>
ErrNoUser == <<"no", "user", "available">>
\* an error and denial reasons Authorize can return
ErrPolicyLookup == <<"policy", "lookup", "failed">>
ReasonDenied == <<"denied", "by", "default">>

\* results of authorizationAttributeBuilder.GetAttributes (line 642)
GetAttributesOutcomes ==
    {[attributes |-> "attributes", err |-> Nil],
     [attributes |-> "nil", err |-> Nil],
     [attributes |-> "nil", err |-> ErrNoStandardParts],
     [attributes |-> "nil", err |-> ErrNoUser],
     [attributes |-> "attributes", err |-> ErrNoUser]}

\* results of authz.Authorize (line 661)
AuthorizeOutcomes ==
    {[allowed |-> TRUE, reason |-> <<>>, err |-> Nil],
     [allowed |-> FALSE, reason |-> ReasonDenied, err |-> Nil],
     [allowed |-> FALSE, reason |-> <<>>, err |-> ErrPolicyLookup],
     [allowed |-> TRUE, reason |-> <<>>, err |-> ErrPolicyLookup]}

\* results of authz.Authorize under a policy that grants the request or does
\* not: when it returns no error it answers what the policy says
AuthorizeFor(granted) ==
    {az \in AuthorizeOutcomes : az.err = Nil => az.allowed = granted}

\* strconv.Quote of one unit of text, as fmt's %q applies it
QuoteUnit(c) ==
    CASE c = "\"" -> <<"\\", "\"">>
      [] c = "\\" -> <<"\\", "\\">>
      [] c = "\t" -> <<"\\", "t">>
      [] OTHER -> <<c>>

RECURSIVE QuoteUnits(_)
QuoteUnits(s) == IF s = <<>> THEN <<>> ELSE QuoteUnit(Head(s)) \o QuoteUnits(Tail(s))

\* fmt's %q of a string
Quote(s) == <<"\"">> \o QuoteUnits(s) \o <<"\"">>

\* lines 677-681: the response forbidden writes for a request with this URI
forbidden(reason, uri) ==
    [status |-> 403,
     body |-> <<"Forbidden: ">> \o Quote(uri) \o <<" ">> \o reason,
     headerWrites |-> 1,
     inner |-> 0]

\* the filter hands the request to the inner handler and writes nothing itself
Forwarded == [status |-> 0, body |-> <<>>, headerWrites |-> 0, inner |-> 1]

\* lines 641-673, for a request with this URI, GetAttributes returning attr and
\* Authorize, if it is called, returning az
authorizationFilterDeniesUnparsed(uri, attr, az) ==
    IF attr.err # Nil
    THEN forbidden(attr.err, uri) @@ [authorizeCalls |-> 0]
    ELSE IF attr.attributes = "nil"
    THEN forbidden(<<"No attributes">>, uri) @@ [authorizeCalls |-> 0]
    ELSE IF az.err # Nil
    THEN forbidden(az.err, uri) @@ [authorizeCalls |-> 1]
    ELSE IF ~az.allowed
    THEN forbidden(az.reason, uri) @@ [authorizeCalls |-> 1]
    ELSE Forwarded @@ [authorizeCalls |-> 1]

authorizationFilterIgnoresDenial(uri, attr, az) ==
    IF attr.err = ErrNoStandardParts
    THEN Forwarded @@ [authorizeCalls |-> 0]
    ELSE IF attr.err # Nil
    THEN forbidden(attr.err, uri) @@ [authorizeCalls |-> 0]
    ELSE IF attr.attributes = "nil"
    THEN forbidden(<<"No attributes">>, uri) @@ [authorizeCalls |-> 0]
    ELSE IF az.err # Nil
    THEN forbidden(az.err, uri) @@ [authorizeCalls |-> 1]
    ELSE Forwarded @@ [authorizeCalls |-> 1]

\* an Authorize error is overlooked when allowed is set
authorizationFilterTrustsAllowed(uri, attr, az) ==
    IF attr.err = ErrNoStandardParts
    THEN Forwarded @@ [authorizeCalls |-> 0]
    ELSE IF attr.err # Nil
    THEN forbidden(attr.err, uri) @@ [authorizeCalls |-> 0]
    ELSE IF attr.attributes = "nil"
    THEN forbidden(<<"No attributes">>, uri) @@ [authorizeCalls |-> 0]
    ELSE IF ~az.allowed
    THEN forbidden(IF az.err # Nil THEN az.err ELSE az.reason, uri)
            @@ [authorizeCalls |-> 1]
    ELSE Forwarded @@ [authorizeCalls |-> 1]

\* the decision of the request before is kept for a request with the same URI
\* and attributes
authorizationFilterCached(uri, attr, az) ==
    IF attr.err = ErrNoStandardParts
    THEN Forwarded @@ [authorizeCalls |-> 0]
    ELSE IF attr.err # Nil
    THEN forbidden(attr.err, uri) @@ [authorizeCalls |-> 0]
    ELSE IF attr.attributes = "nil"
    THEN forbidden(<<"No attributes">>, uri) @@ [authorizeCalls |-> 0]
    ELSE IF fCount > 0 /\ fReq.RequestURI = uri /\ fReq.attr = attr
    THEN [fResp EXCEPT !.authorizeCalls = 0]
    ELSE IF az.err # Nil
    THEN forbidden(az.err, uri) @@ [authorizeCalls |-> 1]
    ELSE IF ~az.allowed
    THEN forbidden(az.reason, uri) @@ [authorizeCalls |-> 1]
    ELSE Forwarded @@ [authorizeCalls |-> 1]

authorizationFilter(uri, attr, az) ==
    IF attr.err = ErrNoStandardParts
    THEN Forwarded @@ [authorizeCalls |-> 0]
    ELSE IF attr.err # Nil
    THEN forbidden(attr.err, uri) @@ [authorizeCalls |-> 0]
    ELSE IF attr.attributes = "nil"
    THEN forbidden(<<"No attributes">>, uri) @@ [authorizeCalls |-> 0]
    ELSE IF az.err # Nil
    THEN forbidden(az.err, uri) @@ [authorizeCalls |-> 1]
    ELSE IF ~az.allowed
    THEN forbidden(az.reason, uri) @@ [authorizeCalls |-> 1]
    ELSE Forwarded @@ [authorizeCalls |-> 1]

\* ------------------------------------------- SpecFilter: the filter on its own
\* number of requests handed to the filter
MaxFilterRequests == 2
\* length of a request URI after its leading "/"
MaxUriLen == 2

UriChars == {"a", "\"", "\\", "\t"}
RequestURIs == {<<"/">> \o s : s \in SeqsUpTo(UriChars, MaxUriLen)}

\* one request passes through the handler authorizationFilter returns
FilterServeHTTP ==
    /\ fCount < MaxFilterRequests
    /\ \E uri \in RequestURIs, attr \in GetAttributesOutcomes,
          az \in AuthorizeOutcomes :
        /\ fReq' = [RequestURI |-> uri, attr |-> attr, az |-> az]
        /\ fResp' = authorizationFilter(uri, attr, az)
    /\ fCount' = fCount + 1
    /\ UNCHANGED <<fGrant, fPrev>>
    /\ UNCHANGED <<bootVars, serveVars, ifaceVars, auxVars>>

\* the boot variables of a process that is not being started
BootIdle ==
    /\ storePolicy = FALSE
    /\ storeBinding = FALSE
    /\ run = 1
    /\ pc = "returned"
    /\ done = {}
    /\ bootLog = <<>>
    /\ prevLog = <<>>
    /\ storeAtStart = Store
    /\ policyCreates = 0
    /\ bindingCreates = 0
    /\ safe = <<>>
    /\ userRoutesChanged = 0
    /\ handler = <<>>
    /\ open = {}
    /\ server = <<>>
    /\ listening = FALSE
    /\ accepted = 0
    /\ exitReason = ""
    /\ CORSAllowedOrigins = <<>>
    /\ compiledPatterns = 0
    /\ ConfigIs(ConfigMaps(NilMap, 0, <<>>))

InitFilter == BootIdle /\ ServeIdle /\ FilterIdle /\ IfaceIdle /\ AuxIdle

NextFilter == FilterServeHTTP

SpecFilter == InitFilter /\ [][NextFilter]_vars

\* ============================================== properties of SpecFilter
\* C2: when GetAttributes fails with ErrNoStandardParts the request goes to the
\* inner handler, Authorize is not called and the filter writes no 403.
C2_NoStandardPartsForwarded ==
    (fCount > 0 /\ fReq.attr.err = ErrNoStandardParts)
        => /\ fResp.inner = 1
           /\ fResp.authorizeCalls = 0
           /\ fResp.status # 403
           /\ fResp.body = <<>>

C2_Witness ==
    /\ fCount > 0
    /\ fReq.attr.err = ErrNoStandardParts
    /\ fResp.inner = 1

\* the cases C3 is about: attributes fail to build with an error other than
\* ErrNoStandardParts, or they build and Authorize fails or denies
Denied(req) ==
    \/ req.attr.err \notin {Nil, ErrNoStandardParts}
    \/ /\ req.attr.err = Nil
       /\ req.attr.attributes # "nil"
       /\ (req.az.err # Nil \/ ~req.az.allowed)

\* the text a denial is expected to carry in the body
DenialText(req) ==
    IF req.attr.err # Nil THEN req.attr.err
    ELSE IF req.az.err # Nil THEN req.az.err
    ELSE req.az.reason

\* no unit of the URI is one that quoting rewrites
Unescaped(uri) == \A i \in DOMAIN uri : QuoteUnit(uri[i]) = <<uri[i]>>

ToBeForwarded(req) ==
    \/ req.attr.err = ErrNoStandardParts
    \/ /\ req.attr.err = Nil
       /\ req.attr.attributes # "nil"
       /\ req.az.err = Nil
       /\ req.az.allowed = TRUE

\* C19: for every request either the inner handler is invoked once and the
\* filter writes nothing, or the filter writes one 403 and the inner handler
\* is not invoked; the first happens exactly when attribute building failed
\* with ErrNoStandardParts, or attributes were built without error and not
\* nil and Authorize returned no error and allowed; nil attributes without an
\* error give a 403 whose body holds "No attributes".
C19_ForwardOrForbidExactlyOne ==
    fCount > 0 =>
        /\ \/ /\ fResp.inner = 1
              /\ fResp.headerWrites = 0 /\ fResp.status = 0 /\ fResp.body = <<>>
           \/ /\ fResp.inner = 0
              /\ fResp.headerWrites = 1 /\ fResp.status = 403
        /\ fResp.inner = 1 <=> ToBeForwarded(fReq)
        /\ (fReq.attr.err = Nil /\ fReq.attr.attributes = "nil") =>
              /\ fResp.status = 403
              /\ Contains(fResp.body, <<"No attributes">>)

\* Authorize answered allowed together with an error, and the request got 403
C19_Witness ==
    /\ fCount > 0
    /\ fReq.attr.err = Nil
    /\ fReq.attr.attributes # "nil"
    /\ fReq.az.err # Nil
    /\ fReq.az.allowed
    /\ fResp.status = 403
    /\ fResp.inner = 0

\* ============ SpecPolicy: the filter while the policy store changes
\* number of requests handed to the filter
MaxPolicyRequests == 2

\* request URIs: two are enough to tell the same request from another one
PolicyURIs == {<<"/", "a">>, <<"/", "b">>}

\* what is kept of the last request when the next one arrives
NoPrev == [valid |-> FALSE, same |-> FALSE, granted |-> FALSE, azErr |-> FALSE,
           authorizeCalls |-> 0, inner |-> 0]

\* one request passes through the handler authorizationFilter returns; az is
\* what Authorize returns under the policy of the moment if the filter calls it
PolicyServeHTTP ==
    /\ fCount < MaxPolicyRequests
    /\ \E uri \in PolicyURIs, attr \in GetAttributesOutcomes,
          az \in AuthorizeFor(fGrant) :
        /\ fPrev' = IF fCount = 0 THEN NoPrev
                    ELSE [valid |-> TRUE,
                          same |-> (uri = fReq.RequestURI /\ attr = fReq.attr),
                          granted |-> fReq.granted,
                          azErr |-> (fReq.az.err # Nil),
                          authorizeCalls |-> fResp.authorizeCalls,
                          inner |-> fResp.inner]
        /\ fReq' = [RequestURI |-> uri, attr |-> attr, az |-> az, granted |-> fGrant]
        /\ fResp' = authorizationFilter(uri, attr, az)
    /\ fCount' = fCount + 1
    /\ UNCHANGED fGrant
    /\ UNCHANGED <<bootVars, serveVars, ifaceVars, auxVars>>

\* the policy store changes between requests: the grant is added or removed
PolicyChange ==
    /\ fCount < MaxPolicyRequests
    /\ fGrant' = ~fGrant
    /\ UNCHANGED <<fCount, fReq, fResp, fPrev>>
    /\ UNCHANGED <<bootVars, serveVars, ifaceVars, auxVars>>

InitPolicy ==
    /\ BootIdle /\ ServeIdle /\ IfaceIdle /\ AuxIdle
    /\ fCount = 0
    /\ fReq = <<>>
    /\ fResp = <<>>
    /\ fGrant \in BOOLEAN
    /\ fPrev = NoPrev

NextPolicy ==
    \/ PolicyServeHTTP
    \/ PolicyChange

SpecPolicy == InitPolicy /\ [][NextPolicy]_vars

\* ============================================== properties of SpecPolicy
\* the attributes of the request were built
AttributesBuilt(req) == req.attr.err = Nil /\ req.attr.attributes # "nil"

\* C20: a request whose attributes were built causes exactly one Authorize
\* call, any other request none; when that call returns no error the request
\* is forwarded exactly when the policy grants it at that moment, whatever
\* was decided for the request before: of two requests in a row with the
\* same URI and attributes, between which the grant was added or removed,
\* the second one gets the decision of the new policy.
C20_AuthorizedAnewPerRequest ==
    fCount > 0 =>
        /\ fResp.authorizeCalls = (IF AttributesBuilt(fReq) THEN 1 ELSE 0)
        /\ (AttributesBuilt(fReq) /\ fReq.az.err = Nil) =>
              (fResp.inner = 1 <=> fReq.granted)
        /\ (/\ fPrev.valid /\ fPrev.same
            /\ AttributesBuilt(fReq)
            /\ fReq.az.err = Nil /\ ~fPrev.azErr
            /\ fPrev.granted # fReq.granted) =>
              /\ fPrev.authorizeCalls = 1
              /\ fPrev.inner # fResp.inner

\* the same request twice: forwarded while granted, 403 after the grant was
\* removed
C20_Witness ==
    /\ fCount = 2
    /\ fPrev.valid /\ fPrev.same
    /\ AttributesBuilt(fReq)
    /\ fPrev.granted /\ fPrev.inner = 1
    /\ ~fReq.granted
    /\ fResp.status = 403
    /\ fResp.authorizeCalls = 1

\* ====================================== SpecServe: requests after Run returned
\* number of requests in flight at once
MaxRequests == 2

Requests == 1..MaxRequests

\* URL paths asked for, as path segments
RequestPaths ==
    {<<>>,
     <<"healthz">>,
     <<"healthz", "deep">>,
     <<"swaggerapi", "api">>,
     <<"osapi", "v1beta1", "buildConfigHooks", "hook">>,
     <<"osapi", "v1beta1", "users", "bob">>}

IsPrefix(p, s) == Len(p) <= Len(s) /\ \A i \in DOMAIN p : p[i] = s[i]

\* http.ServeMux: an entry ending in "/" serves its subtree, another one its
\* exact path; the longest matching pattern wins
MuxMatches(e, path) ==
    IF e.subtree THEN IsPrefix(e.pattern, path) ELSE e.pattern = path

MuxHandler(entries, path) ==
    LET m == {e \in entries : MuxMatches(e, path)}
    IN (CHOOSE e \in m : \A f \in m : Len(f.pattern) <= Len(e.pattern)).target

LeafHandlers == {"safe", "webhook", "swagger", "healthz"}

Enters(i, stage) == reqTrace' = [reqTrace EXCEPT ![i] = Append(@, stage)]

\* the listener hands request i, for some path, to the server's handler
ServeAccept(i) ==
    /\ listening
    /\ reqStack[i] = <<"accept">>
    /\ \E path \in RequestPaths : reqPath' = [reqPath EXCEPT ![i] = path]
    /\ reqStack' = [reqStack EXCEPT ![i] = server]
    /\ UNCHANGED <<reqTrace, reqStatus, ctxVars>>
    /\ UNCHANGED <<bootVars, filterVars, ifaceVars, auxVars>>

\* apiserver.CORS passes the request on (line 560)
ServeCORS(i) ==
    /\ reqStack[i] # <<>>
    /\ Head(reqStack[i]) = "CORS"
    /\ Enters(i, "CORS")
    /\ reqStack' = [reqStack EXCEPT ![i] = Tail(@)]
    /\ UNCHANGED <<reqPath, reqStatus, ctxVars>>
    /\ UNCHANGED <<bootVars, filterVars, ifaceVars, auxVars>>

\* the open container dispatches on the path
ServeOpen(i) ==
    /\ reqStack[i] # <<>>
    /\ Head(reqStack[i]) = "open"
    /\ Enters(i, "open")
    /\ reqStack' = [reqStack EXCEPT ![i] = MuxHandler(open, reqPath[i])]
    /\ UNCHANGED <<reqPath, reqStatus, ctxVars>>
    /\ UNCHANGED <<bootVars, filterVars, ifaceVars, auxVars>>

\* the stage at which a filter that has handed the request on gets it back
Return(stage) == stage \o ".return"
ReturnStages == {Return("authenticationHandlerFilter")}

\* the stages a request still passes once the innermost handler has answered:
\* those of the filters that are waiting for it to return
Unwind(stack) == SelectSeq(stack, LAMBDA st : st \in ReturnStages)

\* authenticationHandlerFilter (handed c.getRequestsToUsers() at line 539): the
\* authenticator resolves the identity, the filter writes it to the map and
\* hands the request on, or it does not and the request ends unauthorized
ServeAuthentication(i) ==
    /\ reqStack[i] # <<>>
    /\ Head(reqStack[i]) = "authenticationHandlerFilter"
    /\ Enters(i, "authenticationHandlerFilter")
    /\ \E ok \in BOOLEAN :
        IF ok
        THEN /\ reqStack' = [reqStack EXCEPT ![i] =
                    Tail(@) \o <<Return("authenticationHandlerFilter")>>]
             /\ requestsToUsers' = requestsToUsers \cup {i}
             /\ ctxWrites' = [ctxWrites EXCEPT ![i] = @ + 1]
             /\ UNCHANGED reqStatus
        ELSE /\ reqStack' = [reqStack EXCEPT ![i] = <<>>]
             /\ reqStatus' = [reqStatus EXCEPT ![i] = 401]
             /\ UNCHANGED ctxVars
    /\ UNCHANGED reqPath
    /\ UNCHANGED <<bootVars, filterVars, ifaceVars, auxVars>>

\* the inner handlers have returned to authenticationHandlerFilter: it drops
\* the entry of the request and returns
ServeAuthenticationReturn(i) ==
    /\ reqStack[i] # <<>>
    /\ Head(reqStack[i]) = Return("authenticationHandlerFilter")
    /\ requestsToUsers' = requestsToUsers \ {i}
    /\ reqStack' = [reqStack EXCEPT ![i] = Tail(@)]
    /\ UNCHANGED <<reqPath, reqTrace, reqStatus, ctxWrites>>
    /\ UNCHANGED <<bootVars, filterVars, ifaceVars, auxVars>>

\* the handler authorizationFilter returns (lines 641-673)
ServeAuthorization(i) ==
    /\ reqStack[i] # <<>>
    /\ Head(reqStack[i]) = "authorizationFilter"
    /\ Enters(i, "authorizationFilter")
    /\ \E attr \in GetAttributesOutcomes, az \in AuthorizeOutcomes :
        LET r == authorizationFilter(reqPath[i], attr, az)
        IN IF r.inner = 1
           THEN /\ reqStack' = [reqStack EXCEPT ![i] = Tail(@)]
                /\ UNCHANGED reqStatus
           ELSE /\ reqStack' = [reqStack EXCEPT ![i] = Unwind(@)]
                /\ reqStatus' = [reqStatus EXCEPT ![i] = r.status]
    /\ UNCHANGED <<reqPath, ctxVars>>
    /\ UNCHANGED <<bootVars, filterVars, ifaceVars, auxVars>>

\* a handler installed on one of the containers serves the request
ServeLeaf(i) ==
    /\ reqStack[i] # <<>>
    /\ Head(reqStack[i]) \in LeafHandlers
    /\ Enters(i, Head(reqStack[i]))
    /\ reqStack' = [reqStack EXCEPT ![i] = Unwind(@)]
    /\ reqStatus' = [reqStatus EXCEPT ![i] = 200]
    /\ UNCHANGED <<reqPath, ctxVars>>
    /\ UNCHANGED <<bootVars, filterVars, ifaceVars, auxVars>>

\* the state Run leaves behind when it returns: the store holds both objects,
\* InstallREST registered the user routes, every origin pattern compiled
InitServe ==
    /\ storePolicy = TRUE
    /\ storeBinding = TRUE
    /\ run = 1
    /\ pc = "returned"
    /\ done = {RunOrder[k] : k \in DOMAIN RunOrder}
    /\ bootLog = <<Call("GetPolicy", Nil)>>
    /\ prevLog = <<>>
    /\ storeAtStart = Store
    /\ policyCreates = 0
    /\ bindingCreates = 0
    /\ safe = InstallProtectedAPI(<<>>,
                [err |-> FALSE,
                 ws |-> WebService(OpenShiftAPIPrefixV1Beta1, UserRoutes)]).container
    /\ userRoutesChanged = 1
    /\ handler = ProtectedHandler(<<"safe">>)
    /\ \E ext \in ExtUnprotectedInstallers :
        open = WithSwagger(OpenInstalled(ext, handler))
    /\ CORSAllowedOrigins \in {o \in CORSConfigs : ~ensureCORSAllowedOrigins(o).fatal}
    /\ compiledPatterns = ensureCORSAllowedOrigins(CORSAllowedOrigins).compiled
    /\ ConfigIs(WrapBuilds(InstallCurrentUserFilters(safe,
                                    ConfigMaps(NilMap, 0, <<>>))))
    /\ server = ServerHandler(ensureCORSAllowedOrigins(CORSAllowedOrigins).regexps)
    /\ listening = TRUE
    /\ accepted = 0
    /\ exitReason = ""
    /\ reqPath = [i \in Requests |-> <<>>]
    /\ reqStack = [i \in Requests |-> <<"accept">>]
    /\ reqTrace = [i \in Requests |-> <<>>]
    /\ reqStatus = [i \in Requests |-> 0]
    /\ requestsToUsers = {}
    /\ ctxWrites = [i \in Requests |-> 0]
    /\ FilterIdle
    /\ IfaceIdle
    /\ AuxIdle

NextServe ==
    \E i \in Requests :
        \/ ServeAccept(i)
        \/ ServeCORS(i)
        \/ ServeOpen(i)
        \/ ServeAuthentication(i)
        \/ ServeAuthenticationReturn(i)
        \/ ServeAuthorization(i)
        \/ ServeLeaf(i)

SpecServe == InitServe /\ [][NextServe]_vars

\* =============================================== properties of SpecServe
Position(trace, stage) ==
    IF \E k \in DOMAIN trace : trace[k] = stage
    THEN CHOOSE k \in DOMAIN trace : trace[k] = stage
    ELSE 0

Entered(i, stage) == Position(reqTrace[i], stage) # 0

\* C1: in every request, under every interleaving, the authorization stage is
\* entered only after the authentication stage of that request has run and
\* let the request through; a request whose authentication is still to run
\* has not entered authorization.
C1_AuthenticationBeforeAuthorization ==
    \A i \in Requests :
        /\ Entered(i, "authorizationFilter") =>
              /\ Entered(i, "authenticationHandlerFilter")
              /\ Position(reqTrace[i], "authenticationHandlerFilter")
                    < Position(reqTrace[i], "authorizationFilter")
        /\ (reqStack[i] # <<>> /\ Head(reqStack[i]) = "authenticationHandlerFilter")
              => ~Entered(i, "authorizationFilter")

\* two requests interleaved: one has been authorized while the other stands
\* between its authentication and its authorization
C1_Witness ==
    \E i, j \in Requests :
        /\ i # j
        /\ Entered(i, "authorizationFilter")
        /\ reqStack[j] # <<>>
        /\ Head(reqStack[j]) = "authorizationFilter"
        /\ Entered(j, "authenticationHandlerFilter")

\* the path matches an entry unprotected installers put on the open container
OnOpenEndpoint(path) ==
    \E e \in open : e.pattern # <<>> /\ MuxMatches(e, path)

\* C4: a request is served by the protected container only after it has passed
\* the authentication filter and then the authorization filter; a request that
\* matches an endpoint installed on the open container is served by that
\* endpoint and passes neither filter.
C4_ProtectedOnlyThroughFilters ==
    \A i \in Requests :
        /\ Entered(i, "safe") =>
              /\ Entered(i, "authenticationHandlerFilter")
              /\ Entered(i, "authorizationFilter")
              /\ Position(reqTrace[i], "authenticationHandlerFilter")
                    < Position(reqTrace[i], "authorizationFilter")
              /\ Position(reqTrace[i], "authorizationFilter")
                    < Position(reqTrace[i], "safe")
        /\ (reqStack[i] # <<"accept">> /\ OnOpenEndpoint(reqPath[i])) =>
              /\ ~Entered(i, "authenticationHandlerFilter")
              /\ ~Entered(i, "authorizationFilter")
              /\ ~Entered(i, "safe")
              /\ reqStack[i] = <<>> => reqStatus[i] = 200

C4_Witness ==
    \E i, j \in Requests :
        /\ Entered(i, "safe")
        /\ reqStatus[i] = 200
        /\ Entered(j, "webhook")
        /\ reqStatus[j] = 200

\* the request has been handed to the server's handler and that has not returned
InFlight(i) == reqStack[i] # <<"accept">> /\ reqStack[i] # <<>>

Completed(i) == reqStack[i] = <<>>

MaxCalls == 3

\* line 28
Versions == <<"v1beta1">>

\* version strings asked for
VersionInputs == {"", "v1beta1", "v1beta2", "v1", "V1BETA1", "unknown"}

\* strings.Join, as the sequence of the pieces of the joined text
RECURSIVE Join(_, _)
Join(elems, sep) ==
    IF Len(elems) = 0 THEN <<>>
    ELSE IF Len(elems) = 1 THEN <<elems[1]>>
    ELSE <<elems[1], sep>> \o Join(Tail(elems), sep)

NilInterfaces ==
    [nil |-> TRUE, Codec |-> "", ObjectConvertor |-> "", MetadataAccessor |-> ""]

\* lines 56-67
InterfacesForEmptyIsLatest(version) ==
    IF version = "v1beta1" \/ version = ""
    THEN [interfaces |-> [nil |-> FALSE, Codec |-> "v1beta1.Codec",
                          ObjectConvertor |-> "api.Scheme",
                          MetadataAccessor |-> "accessor"],
          err |-> Nil]
    ELSE [interfaces |-> NilInterfaces,
          err |-> <<"unsupported storage version: ", version, " (valid: ">>
                    \o Join(Versions, ", ") \o <<")">>]

InterfacesFor(version) ==
    IF version = "v1beta1"
    THEN [interfaces |-> [nil |-> FALSE, Codec |-> "v1beta1.Codec",
                          ObjectConvertor |-> "api.Scheme",
                          MetadataAccessor |-> "accessor"],
          err |-> Nil]
    ELSE [interfaces |-> NilInterfaces,
          err |-> <<"unsupported storage version: ", version, " (valid: ">>
                    \o Join(Versions, ", ") \o <<")">>]

\* a caller asks for the interfaces of some version
InterfacesForCall ==
    /\ Len(ifaceLog) < MaxCalls
    /\ \E v \in VersionInputs :
        ifaceLog' = Append(ifaceLog, [version |-> v, result |-> InterfacesFor(v)])
    /\ UNCHANGED <<bootVars, serveVars, filterVars, auxVars>>

InitIface == BootIdle /\ ServeIdle /\ FilterIdle /\ IfaceIdle /\ AuxIdle

NextIface == InterfacesForCall

SpecIface == InitIface /\ [][NextIface]_vars

\* =============================================== properties of SpecIface
IsVersion(v) == \E i \in DOMAIN Versions : Versions[i] = v

\* the text holds every element of Versions, in order, ", " between neighbours
ListsVersions(text) ==
    \E p \in DOMAIN text :
        \A i \in DOMAIN Versions :
            /\ p + 2 * (i - 1) \in DOMAIN text
            /\ text[p + 2 * (i - 1)] = Versions[i]
            /\ i < Len(Versions) =>
                  /\ p + 2 * i - 1 \in DOMAIN text
                  /\ text[p + 2 * i - 1] = ", "

\* C10: InterfacesFor(v) returns a descriptor (codec, converter, accessor) and
\* no error exactly when v is an element of Versions; for any other string,
\* the empty one included, it returns no descriptor and an error whose text
\* names v and lists the elements of Versions joined by ", ".
C10_InterfacesForKnownVersions ==
    \A k \in DOMAIN ifaceLog :
        LET v == ifaceLog[k].version
            r == ifaceLog[k].result
        IN /\ IsVersion(v) <=> (r.err = Nil /\ ~r.interfaces.nil)
           /\ IsVersion(v) =>
                /\ r.interfaces.Codec # ""
                /\ r.interfaces.ObjectConvertor # ""
                /\ r.interfaces.MetadataAccessor # ""
           /\ ~IsVersion(v) =>
                /\ r.interfaces.nil
                /\ r.err # Nil
                /\ \E p \in DOMAIN r.err : r.err[p] = v
                /\ ListsVersions(r.err)

C10_Witness ==
    /\ \E k \in DOMAIN ifaceLog :
        ifaceLog[k].version = "" /\ ifaceLog[k].result.err # Nil
    /\ \E k \in DOMAIN ifaceLog :
        ifaceLog[k].version = "v1beta1" /\ ~ifaceLog[k].result.interfaces.nil

\* ======================================= SpecEtcd: NewEtcdHelper
\* number of NewEtcdHelper calls recorded
MaxHelperCalls == 3

\* line 19
Version == "v1beta1"

\* the *etcdclient.Client values handed in
EtcdClients == {"nil", "client1", "client2"}

\* the zero value of tools.EtcdHelper, which the named result holds at entry
ZeroEtcdHelper == [Client |-> "nil", Codec |-> "", ResourceVersioner |-> <<>>]

\* line 882
EtcdHelper(client, interfaces) ==
    [Client |-> client, Codec |-> interfaces.Codec,
     ResourceVersioner |-> <<"RuntimeVersionAdapter", interfaces.MetadataAccessor>>]

NewEtcdHelperNoDefault(version, client) ==
    LET r == InterfacesFor(version)
    IN IF r.err # Nil
       THEN [helper |-> ZeroEtcdHelper, err |-> r.err, fatal |-> FALSE]
       ELSE [helper |-> EtcdHelper(client, r.interfaces), err |-> Nil,
             fatal |-> FALSE]

\* lines 874-883; fatal: the function has ended the process
NewEtcdHelper(version, client) ==
    LET v == IF version = "" THEN Version ELSE version
        r == InterfacesFor(v)
    IN IF r.err # Nil
       THEN [helper |-> ZeroEtcdHelper, err |-> r.err, fatal |-> FALSE]
       ELSE [helper |-> EtcdHelper(client, r.interfaces), err |-> Nil,
             fatal |-> FALSE]

\* the process is running: no call so far has ended it
EtcdRunning == \A k \in DOMAIN etcdLog : ~etcdLog[k].result.fatal

\* a caller asks for a helper
NewEtcdHelperCall ==
    /\ EtcdRunning
    /\ Len(etcdLog) < MaxHelperCalls
    /\ \E v \in VersionInputs, client \in EtcdClients :
        etcdLog' = Append(etcdLog, [version |-> v, client |-> client,
                                    result |-> NewEtcdHelper(v, client)])
    /\ UNCHANGED <<bootVars, serveVars, filterVars, ifaceVars, mapperVars,
                   listenVars, ctrlVars>>

InitEtcd ==
    /\ BootIdle /\ ServeIdle /\ FilterIdle /\ IfaceIdle
    /\ MapperIdle /\ ListenIdle /\ CtrlIdle
    /\ etcdLog = <<>>

NextEtcd == NewEtcdHelperCall

SpecEtcd == InitEtcd /\ [][NextEtcd]_vars

\* ================================================ properties of SpecEtcd
\* C22: an empty version is treated as latest.Version, so a call with the empty
\* version yields the helper and error of a call with latest.Version and the
\* same client; a version InterfacesFor rejects yields InterfacesFor's error
\* and the zero-value helper, and the process goes on; a supported version
\* yields a helper of the client, that version's codec and its metadata
\* accessor, and a nil error.
C22_EmptyIsLatestErrorsReturned ==
    \A k \in DOMAIN etcdLog :
        LET e == etcdLog[k]
            asked == IF e.version = "" THEN Version ELSE e.version
            ifaces == InterfacesFor(asked)
        IN /\ ~e.result.fatal
           /\ e.version = "" =>
                /\ e.result.err = Nil
                /\ \A j \in DOMAIN etcdLog :
                      (etcdLog[j].version = Version /\ etcdLog[j].client = e.client)
                          => etcdLog[j].result = e.result
           /\ ifaces.err # Nil =>
                /\ e.result.err = ifaces.err
                /\ e.result.helper.Client = "nil"
                /\ e.result.helper.Codec = ""
                /\ e.result.helper.ResourceVersioner = <<>>
           /\ ifaces.err = Nil =>
                /\ e.result.err = Nil
                /\ e.result.helper.Client = e.client
                /\ e.result.helper.Codec = ifaces.interfaces.Codec
                /\ e.result.helper.ResourceVersioner
                      = <<"RuntimeVersionAdapter", ifaces.interfaces.MetadataAccessor>>

\* a call with a rejected version has returned its error, and later calls
\* with the empty version and with latest.Version, for one client, have each
\* returned a helper
C22_Witness ==
    \E j, k, l \in DOMAIN etcdLog :
        /\ j < k
        /\ etcdLog[j].version = "v1beta2"
        /\ etcdLog[j].result.err # Nil
        /\ etcdLog[k].version = ""
        /\ etcdLog[k].client = "client1"
        /\ etcdLog[k].result.helper.Codec = "v1beta1.Codec"
        /\ etcdLog[l].version = Version
        /\ etcdLog[l].client = "client1"
        /\ etcdLog[l].result.helper.Client = "client1"

\* ================================== SpecMapper: init of pkg/api/latest
\* number of RESTMapper.RESTMapping calls recorded
MaxLookups == 2

\* kmeta.RESTScope values
RESTScopeRoot == "root"
RESTScopeNamespaceLegacy == "namespaceLegacy"
RESTScopeNamespace == "namespace"
\* the zero value a Go map lookup yields for a missing key
NilScope == ""

\* kinds api.Scheme can know for a version: kinds of this API and of the host's
SchemaKinds == {"Project", "Identity", "OAuthClient", "Build", "Pod"}

\* lines 110-112
versionMixedCase == [v \in {"v1beta1"} |-> TRUE]

\* lines 115-117
versionToNamespaceScope == [v \in {"v1beta1"} |-> RESTScopeNamespaceLegacy]

\* lines 121-132: the keys of the map
kindToRootScopeNoIdentity ==
    {"Project", "User", "UserIdentityMapping", "OAuthAccessToken",
     "OAuthAuthorizeToken", "OAuthClient", "OAuthClientAuthorization"}

kindToRootScope ==
    {"Project", "User", "Identity", "UserIdentityMapping", "OAuthAccessToken",
     "OAuthAuthorizeToken", "OAuthClient", "OAuthClientAuthorization"}

RESTMapping(scope, kind, version, mixedCase) ==
    [scope |-> scope, kind |-> kind, version |-> version, mixedCase |-> mixedCase]

\* lines 137-146: the arguments of originMapper.Add for this kind and version
Registration(kind, version) ==
    LET mixedCase == IF version \in DOMAIN versionMixedCase
                     THEN versionMixedCase[version] ELSE FALSE
        nsScope == IF version \in DOMAIN versionToNamespaceScope
                   THEN versionToNamespaceScope[version] ELSE NilScope
        scope == IF kind \in kindToRootScope THEN RESTScopeRoot ELSE nsScope
    IN RESTMapping(scope, kind, version, mixedCase)

\* DefaultRESTMapper.Add: the mapping joins the mapper's set
Add(mapper, m) == mapper \cup {m}

\* lines 135-136: the pairs the two loops have still to visit after this one
RemainingRevisits(pairs, p) == pairs

Remaining(pairs, p) == pairs \ {p}

VersionIndex(v) == CHOOSE i \in DOMAIN Versions : Versions[i] = v

\* lines 135-147: one iteration; versions in the order of Versions, the kinds
\* of a version in any order
InitAdd ==
    /\ RESTMapper = <<>>
    /\ \E p \in todo :
        /\ \A q \in todo : VersionIndex(p[1]) <= VersionIndex(q[1])
        /\ originMapper' = Add(originMapper, Registration(p[2], p[1]))
        /\ addCalls' = [addCalls EXCEPT ![p] = @ + 1]
        /\ todo' = Remaining(todo, p)
    /\ UNCHANGED <<knownTypes, kubeMapper, RESTMapper, lookupLog>>
    /\ UNCHANGED <<bootVars, serveVars, filterVars, ifaceVars, listenVars, ctrlVars,
                   etcdVars>>

\* line 152: the mappers of the composite, in the order they are consulted
CompositeKubeFirst == <<"kubeMapper", "originMapper">>

Composite == <<"originMapper", "kubeMapper">>

\* lines 150-152
InitRESTMapper ==
    /\ RESTMapper = <<>>
    /\ todo = {}
    /\ RESTMapper' = Composite
    /\ UNCHANGED <<knownTypes, kubeMapper, originMapper, todo, addCalls, lookupLog>>
    /\ UNCHANGED <<bootVars, serveVars, filterVars, ifaceVars, listenVars, ctrlVars,
                   etcdVars>>

ErrNoMapping == <<"no", "RESTMapping", "found">>

NoMapping ==
    [found |-> FALSE, mapper |-> "", scope |-> NilScope, kind |-> "", version |-> "",
     mixedCase |-> FALSE, Codec |-> "", err |-> ErrNoMapping]

\* the codec a mapper's interfaces function gives for a version: originMapper's
\* is InterfacesFor (lines 97-103)
MapperCodec(name, version) ==
    IF name = "originMapper"
    THEN InterfacesFor(version).interfaces.Codec
    ELSE "klatest." \o version \o ".Codec"

MapperSet(name) == IF name = "originMapper" THEN originMapper ELSE kubeMapper

\* RESTMapping of one mapper: the mapping it holds for the pair, with the
\* codec of its interfaces function
MapperRESTMapping(name, kind, version) ==
    LET hits == {m \in MapperSet(name) : m.kind = kind /\ m.version = version}
    IN IF hits = {} \/ MapperCodec(name, version) = ""
       THEN NoMapping
       ELSE LET m == CHOOSE h \in hits : TRUE
            IN [found |-> TRUE, mapper |-> name, scope |-> m.scope, kind |-> m.kind,
                version |-> m.version, mixedCase |-> m.mixedCase,
                Codec |-> MapperCodec(name, version), err |-> Nil]

\* MultiRESTMapper.RESTMapping: the first mapper that has a mapping answers
RECURSIVE MultiRESTMapping(_, _, _)
MultiRESTMapping(mappers, kind, version) ==
    IF mappers = <<>> THEN NoMapping
    ELSE LET r == MapperRESTMapping(Head(mappers), kind, version)
         IN IF r.found THEN r ELSE MultiRESTMapping(Tail(mappers), kind, version)

LookupKinds == SchemaKinds \cup {"Unknown"}
LookupVersions == {"v1beta1", "v1beta3"}

\* a caller resolves a kind and version through latest.RESTMapper
RESTMappingCall ==
    /\ RESTMapper # <<>>
    /\ Len(lookupLog) < MaxLookups
    /\ \E kind \in LookupKinds, version \in LookupVersions :
        lookupLog' = Append(lookupLog,
                        [kind |-> kind, version |-> version,
                         result |-> MultiRESTMapping(RESTMapper, kind, version)])
    /\ UNCHANGED <<knownTypes, kubeMapper, originMapper, todo, addCalls, RESTMapper>>
    /\ UNCHANGED <<bootVars, serveVars, filterVars, ifaceVars, listenVars, ctrlVars,
                   etcdVars>>

\* what klatest.RESTMapper can hold: nothing, the host's Pod in two versions,
\* and besides those a mapping for a kind this API registers as well
KubeMappers ==
    {{},
     {RESTMapping(RESTScopeNamespaceLegacy, "Pod", "v1beta1", TRUE),
      RESTMapping(RESTScopeNamespace, "Pod", "v1beta3", FALSE)},
     {RESTMapping(RESTScopeNamespaceLegacy, "Pod", "v1beta1", TRUE),
      RESTMapping(RESTScopeNamespace, "Pod", "v1beta3", FALSE),
      RESTMapping(RESTScopeNamespace, "Project", "v1beta1", FALSE)}}

\* the package is loaded: init is about to enter its loops (line 135)
InitMapper ==
    /\ BootIdle /\ ServeIdle /\ FilterIdle /\ IfaceIdle /\ ListenIdle /\ CtrlIdle
    /\ EtcdIdle
    /\ knownTypes \in [{Versions[i] : i \in DOMAIN Versions} -> SUBSET SchemaKinds]
    /\ kubeMapper \in KubeMappers
    /\ originMapper = {}
    /\ todo = {p \in (DOMAIN knownTypes) \X SchemaKinds : p[2] \in knownTypes[p[1]]}
    /\ addCalls = [p \in (DOMAIN knownTypes) \X SchemaKinds |-> 0]
    /\ RESTMapper = <<>>
    /\ lookupLog = <<>>

NextMapper ==
    \/ InitAdd
    \/ InitRESTMapper
    \/ RESTMappingCall

SpecMapper == InitMapper /\ [][NextMapper]_vars

\* ============================================== properties of SpecMapper
\* init has run to its end
InitDone == RESTMapper # <<>>

RootAllowSet ==
    {"Project", "User", "Identity", "UserIdentityMapping", "OAuthAccessToken",
     "OAuthAuthorizeToken", "OAuthClient", "OAuthClientAuthorization"}

Holds(mapper, kind, version) ==
    \E m \in mapper : m.kind = kind /\ m.version = version

\* C11: every mapping registered for v1beta1 has scope Root exactly when its
\* kind is in the root allow-set and scope NamespaceLegacy otherwise, and is
\* mixed-case in both cases; when init has ended every kind the schema knows
\* for v1beta1 has such a mapping.
C11_LegacyScopeByKind ==
    /\ \A m \in originMapper :
          m.version = "v1beta1" =>
            /\ m.scope = RESTScopeRoot <=> m.kind \in RootAllowSet
            /\ m.scope # RESTScopeRoot => m.scope = RESTScopeNamespaceLegacy
            /\ m.mixedCase = TRUE
    /\ InitDone =>
          \A k \in knownTypes["v1beta1"] : Holds(originMapper, k, "v1beta1")

C11_Witness ==
    /\ InitDone
    /\ RESTMapping(RESTScopeRoot, "Project", "v1beta1", TRUE) \in originMapper
    /\ RESTMapping(RESTScopeRoot, "Identity", "v1beta1", TRUE) \in originMapper
    /\ RESTMapping(RESTScopeNamespaceLegacy, "Build", "v1beta1", TRUE) \in originMapper

KubeCodec(version) == "klatest." \o version \o ".Codec"

\* C13: a lookup through the composite gives, when the origin mapper holds a
\* mapping for the pair, that mapping with the origin codec, whatever the kube
\* mapper holds; when only the kube mapper holds one, the kube mapping; and
\* when neither does, no mapping and an error.
C13_OriginFirstThenKube ==
    \A i \in DOMAIN lookupLog :
        LET kind == lookupLog[i].kind
            version == lookupLog[i].version
            r == lookupLog[i].result
            asMapping == RESTMapping(r.scope, r.kind, r.version, r.mixedCase)
        IN /\ Holds(originMapper, kind, version) =>
                /\ r.found /\ r.err = Nil
                /\ r.kind = kind /\ r.version = version
                /\ asMapping \in originMapper
                /\ r.Codec = InterfacesFor(version).interfaces.Codec
           /\ (~Holds(originMapper, kind, version)
                 /\ Holds(kubeMapper, kind, version)) =>
                /\ r.found /\ r.err = Nil
                /\ r.kind = kind /\ r.version = version
                /\ asMapping \in kubeMapper
                /\ r.Codec = KubeCodec(version)
           /\ (~Holds(originMapper, kind, version)
                 /\ ~Holds(kubeMapper, kind, version)) =>
                /\ ~r.found
                /\ r.err # Nil

\* both mappers hold Project for v1beta1 with different scopes, and a pair
\* neither holds has been looked up
C13_Witness ==
    /\ Holds(kubeMapper, "Project", "v1beta1")
    /\ \E i \in DOMAIN lookupLog :
          /\ lookupLog[i].kind = "Project"
          /\ lookupLog[i].version = "v1beta1"
          /\ lookupLog[i].result.scope = RESTScopeRoot
    /\ \E i \in DOMAIN lookupLog :
          /\ lookupLog[i].kind = "Unknown"
          /\ ~lookupLog[i].result.found

\* =========== SpecListen: the listener task and the readiness probe
\* (Run lines 571-590, RunAssetServer lines 740-760)
\* the attempt count handed to WaitForSuccessfulDial
ProbeAttempts == 100

\* the two functions that start a listener, with c.TLS set or not
ListenerEntries == [func : {"Run", "RunAssetServer"}, TLS : BOOLEAN]

\* lines 583/585 and 750/753: what the function does with the error that
\* ListenAndServe or ListenAndServeTLS returned; glog.Fatal ends the process
OnServeError(entry) == "exit"

\* lines 589-590 and 757-758: where the starting thread goes after the go
\* statement
AfterGoForeverReturns(entry) == "returned"

AfterGoForever(entry) == "probe"

listenTail == <<bootVars, serveVars, filterVars, ifaceVars, mapperVars, ctrlVars,
               etcdVars>>

\* lines 571 and 740: the go statement creates the listener task
GoForever ==
    /\ lExit = ""
    /\ lPc = "go"
    /\ lTask' = "idle"
    /\ lPc' = AfterGoForever(lEntry)
    /\ UNCHANGED <<lEntry, lInvocations, lServeErrors, lAttempts, lDialed, lExit>>
    /\ UNCHANGED listenTail

\* util.Forever with period 0: it invokes the function whenever the task is
\* not inside it
ForeverInvoke ==
    /\ lExit = ""
    /\ lTask = "idle"
    /\ lTask' = "invoked"
    /\ lInvocations' = lInvocations + 1
    /\ UNCHANGED <<lEntry, lPc, lServeErrors, lAttempts, lDialed, lExit>>
    /\ UNCHANGED listenTail

\* lines 572-585 and 741-753: the function reaches ListenAndServe (or
\* ListenAndServeTLS when c.TLS), which binds and serves, or returns an error
ListenAndServe ==
    /\ lExit = ""
    /\ lTask = "invoked"
    /\ \E bound \in BOOLEAN :
        IF bound
        THEN /\ lTask' = "serving"
             /\ UNCHANGED lServeErrors
        ELSE /\ lTask' = "failed"
             /\ lServeErrors' = lServeErrors + 1
    /\ UNCHANGED <<lEntry, lPc, lInvocations, lAttempts, lDialed, lExit>>
    /\ UNCHANGED listenTail

\* ListenAndServe returns an error after it has served for a while
ServeReturns ==
    /\ lExit = ""
    /\ lTask = "serving"
    /\ lTask' = "failed"
    /\ lServeErrors' = lServeErrors + 1
    /\ UNCHANGED <<lEntry, lPc, lInvocations, lAttempts, lDialed, lExit>>
    /\ UNCHANGED listenTail

\* lines 583/585 and 750/753: the error goes to glog.Fatal
ServeError ==
    /\ lExit = ""
    /\ lTask = "failed"
    /\ IF OnServeError(lEntry) = "exit"
       THEN /\ lExit' = "listener"
            /\ lTask' = "dead"
       ELSE /\ lTask' = "idle"
            /\ UNCHANGED lExit
    /\ UNCHANGED <<lEntry, lPc, lInvocations, lServeErrors, lAttempts, lDialed>>
    /\ UNCHANGED listenTail

\* WaitForSuccessfulDial, one attempt: the dial connects only to a listener
\* that is bound; the probe ends on the first connection or with the last
\* attempt of its budget, and the starting function returns
Dial ==
    /\ lExit = ""
    /\ lPc = "probe"
    /\ lAttempts < ProbeAttempts
    /\ \E connected \in (IF lTask = "serving" THEN BOOLEAN ELSE {FALSE}) :
        /\ lAttempts' = lAttempts + 1
        /\ lDialed' = connected
        /\ lPc' = IF connected \/ lAttempts + 1 = ProbeAttempts
                  THEN "returned" ELSE "probe"
    /\ UNCHANGED <<lEntry, lTask, lInvocations, lServeErrors, lExit>>
    /\ UNCHANGED listenTail

\* the starting thread is at the go statement with the server constructed
InitListen ==
    /\ BootIdle /\ ServeIdle /\ FilterIdle /\ IfaceIdle /\ MapperIdle /\ CtrlIdle
    /\ EtcdIdle
    /\ lEntry \in ListenerEntries
    /\ lPc = "go"
    /\ lTask = "none"
    /\ lInvocations = 0
    /\ lServeErrors = 0
    /\ lAttempts = 0
    /\ lDialed = FALSE
    /\ lExit = ""

NextListen ==
    \/ GoForever
    \/ ForeverInvoke
    \/ ListenAndServe
    \/ ServeReturns
    \/ ServeError
    \/ Dial

SpecListen == InitListen /\ [][NextListen]_vars

\* the starting thread and the listener task are each scheduled while they
\* have a step to take
SpecListenFair ==
    /\ SpecListen
    /\ WF_vars(GoForever)
    /\ WF_vars(Dial)

ProbeEnded == lPc = "returned"

\* C15: the starting function returns only after the probe has connected once
\* or has made all of its 100 attempts, and it makes no more than 100; unless
\* the process exits first, the function does return, also when no listener is
\* ever bound; while the probe runs the listener task is free to take its steps.
C15_ReturnsAfterProbe ==
    /\ [](/\ lAttempts <= 100
          /\ ProbeEnded => (lDialed \/ lAttempts = 100)
          /\ lDialed => ProbeEnded
          /\ (lPc = "probe" /\ lExit = "" /\ lTask = "idle") => ENABLED ForeverInvoke
          /\ (lPc = "probe" /\ lExit = "" /\ lTask = "invoked") => ENABLED ListenAndServe)
    /\ <>(ProbeEnded \/ lExit # "")

\* the budget has been used up with the listener task started and never bound
C15_Witness ==
    /\ ProbeEnded
    /\ ~lDialed
    /\ lAttempts = 100
    /\ lTask = "invoked"
    /\ lExit = ""

\* ==================== SpecControllers: the controller launchers
\* (lines 763-857)
\* number of launcher invocations, all launchers together
MaxLaunches == 3

Launchers ==
    {"RunBuildController", "RunBuildImageChangeTriggerController",
     "RunDeploymentController", "RunDeploymentConfigController",
     "RunDeploymentConfigChangeController",
     "RunDeploymentImageChangeTriggerController"}

RECURSIVE SumOver(_, _)
SumOver(f, S) ==
    IF S = {} THEN 0
    ELSE LET x == CHOOSE y \in S : TRUE IN f[x] + SumOver(f, S \ {x})

\* factory.Create(): a controller whose Run has not been called
Created == [runCalls |-> 0, loop |-> "created", stopped |-> FALSE]

\* controller.Run(): the controller starts its own loop and the call returns
ControllerRun(c) == [c EXCEPT !.runCalls = @ + 1, !.loop = "running"]

\* the launcher has returned after controller.Run() (lines 796-797 and the
\* like): what becomes of a controller whose loop ends
AfterLoopStopsSupervised(c) == ControllerRun([c EXCEPT !.stopped = TRUE])

AfterLoopStops(c) == [c EXCEPT !.loop = "stopped", !.stopped = TRUE]

\* one invocation of a launcher: it constructs a controller and calls its Run
Launch(l) ==
    /\ SumOver(cLaunches, Launchers) < MaxLaunches
    /\ cLaunches' = [cLaunches EXCEPT ![l] = @ + 1]
    /\ cControllers' = [cControllers EXCEPT ![l] = Append(@, ControllerRun(Created))]
    /\ UNCHANGED <<bootVars, serveVars, filterVars, ifaceVars, mapperVars, listenVars,
                   etcdVars>>

\* lines 764-797
RunBuildController == Launch("RunBuildController")

\* lines 800-806
RunBuildImageChangeTriggerController == Launch("RunBuildImageChangeTriggerController")

\* lines 809-828
RunDeploymentController == Launch("RunDeploymentController")

\* lines 830-839
RunDeploymentConfigController == Launch("RunDeploymentConfigController")

\* lines 841-850
RunDeploymentConfigChangeController == Launch("RunDeploymentConfigChangeController")

\* lines 852-857
RunDeploymentImageChangeTriggerController ==
    Launch("RunDeploymentImageChangeTriggerController")

\* the loop of a running controller ends
ControllerLoopStops ==
    /\ \E l \in Launchers : \E k \in DOMAIN cControllers[l] :
        /\ cControllers[l][k].loop = "running"
        /\ cControllers' =
              [cControllers EXCEPT ![l][k] = AfterLoopStops(cControllers[l][k])]
    /\ UNCHANGED cLaunches
    /\ UNCHANGED <<bootVars, serveVars, filterVars, ifaceVars, mapperVars, listenVars,
                   etcdVars>>

InitControllers ==
    /\ BootIdle /\ ServeIdle /\ FilterIdle /\ IfaceIdle /\ MapperIdle /\ ListenIdle
    /\ EtcdIdle
    /\ cLaunches = [l \in Launchers |-> 0]
    /\ cControllers = [l \in Launchers |-> <<>>]

NextControllers ==
    \/ RunBuildController
    \/ RunBuildImageChangeTriggerController
    \/ RunDeploymentController
    \/ RunDeploymentConfigController
    \/ RunDeploymentConfigChangeController
    \/ RunDeploymentImageChangeTriggerController
    \/ ControllerLoopStops

SpecControllers == InitControllers /\ [][NextControllers]_vars

\* ========================================= properties of SpecControllers
\* C16: each launcher has constructed one controller per invocation; Run has
\* been called exactly once on every controller; and a controller whose loop
\* has stopped at some time is stopped.
C16_ControllerRunOnceNeverRestarted ==
    \A l \in Launchers :
        /\ Len(cControllers[l]) = cLaunches[l]
        /\ \A k \in DOMAIN cControllers[l] :
            /\ cControllers[l][k].runCalls = 1
            /\ cControllers[l][k].loop \in {"running", "stopped"}
            /\ cControllers[l][k].stopped => cControllers[l][k].loop = "stopped"

\* a launcher invoked twice, its first controller stopped and its second one
\* running, and a stopped controller of another launcher
C16_Witness ==
    /\ Len(cControllers["RunBuildController"]) = 2
    /\ cControllers["RunBuildController"][1].loop = "stopped"
    /\ cControllers["RunBuildController"][2].loop = "running"
    /\ Len(cControllers["RunDeploymentImageChangeTriggerController"]) = 1
    /\ cControllers["RunDeploymentImageChangeTriggerController"][1].stopped

====
